---- MODULE Spec2Model ----
(***************************************************************************)
(* Model of src/sap_automator.py: the SAPAutomator class.                  *)
(*                                                                         *)
(* The automator is single-threaded and blocking.  pc is the position of   *)
(* the one thread of control: "idle" between two public operations, and a  *)
(* position inside _open_sap_logon, _connect_to_system, _login or          *)
(* check_msgBox otherwise.  Every external call (process launch, COM       *)
(* lookup, field write, key send) is a step whose outcome the external     *)
(* client chooses: it succeeds, or it faults with some text.               *)
(*                                                                         *)
(* An Optional[...] attribute is a sequence of length 0 (None) or 1.       *)
(* Message texts are strings; the accented letters of the source's         *)
(* messages are written without their accents (no message test of the      *)
(* source looks at an accented letter).                                    *)
(***************************************************************************)
EXTENDS Integers, Sequences, FiniteSets, TLC

(***************************************************************************)
(* Bounds of the model.                                                    *)
(***************************************************************************)
\* connections the external client is asked to open in one behaviour
MaxConns == 2
\* largest number of consecutive checks on which the modal window is present
MaxDialogs == 3
\* largest value Sessions.Count reports
MaxSessions == 1
\* engine lookups that return an empty handle without faulting, per call
MaxFalsy == 2

(***************************************************************************)
(* Program constants.                                                      *)
(***************************************************************************)
\* def _open_sap_logon(self, timeout_seconds: int = 30)
DefaultTimeout == 30
\* time.sleep(1) in the polling loop
PollSleep == 1

\* the constructor's arguments that the messages show
SystemNames == {"PRD", "QAS"}
sap_exe_path == "saplogon.exe"

\* texts a fault of the external client (a COM error) may carry
FaultTexts == {"The control could not be found by id.",
               "Invalid ELEMENT id",
               "findById failed"}
\* texts the status line may show after the login was submitted
StatusTexts == {"Name or password is incorrect",
                "Enter a valid element"}
\* message types the status line may report
MessageTypes == {"S", "", "E", "e", "A", "x"}

None == <<>>
Some(x) == <<x>>

ConnErr == "SAPConnectionError"
ValErr == "ValueError"
AttrErrText == "'NoneType' object has no attribute 'GetScriptingEngine'"

(***************************************************************************)
(* str.lower() and the substring test `needle in text`.                    *)
(***************************************************************************)
LowerChar(c) ==
    CASE c = "A" -> "a" [] c = "B" -> "b" [] c = "C" -> "c" [] c = "D" -> "d"
      [] c = "E" -> "e" [] c = "F" -> "f" [] c = "G" -> "g" [] c = "H" -> "h"
      [] c = "I" -> "i" [] c = "J" -> "j" [] c = "K" -> "k" [] c = "L" -> "l"
      [] c = "M" -> "m" [] c = "N" -> "n" [] c = "O" -> "o" [] c = "P" -> "p"
      [] c = "Q" -> "q" [] c = "R" -> "r" [] c = "S" -> "s" [] c = "T" -> "t"
      [] c = "U" -> "u" [] c = "V" -> "v" [] c = "W" -> "w" [] c = "X" -> "x"
      [] c = "Y" -> "y" [] c = "Z" -> "z" [] OTHER -> c

RECURSIVE Lower(_)
Lower(s) ==
    IF Len(s) = 0 THEN ""
    ELSE LowerChar(SubSeq(s, 1, 1)) \o Lower(SubSeq(s, 2, Len(s)))

RECURSIVE Contains(_, _)
Contains(needle, text) ==
    IF Len(text) < Len(needle) THEN FALSE
    ELSE IF SubSeq(text, 1, Len(needle)) = needle THEN TRUE
    ELSE Contains(needle, SubSeq(text, 2, Len(text)))


(***************************************************************************)
(* State.                                                                  *)
(***************************************************************************)
VARIABLES
    system_name,      \* self.system_name, set by the constructor
    session,          \* self.session: None or Some([conn, idx])
    connection,       \* self._connection: None or Some(connection id)
    sap_gui_app,      \* self._sap_gui_app: None or Some("SAPGUI")
    pc,               \* position of the thread of control
    op,               \* the public operation running, or the last one run
    first_call,       \* whether that operation is the first since construction
    open_new_logon,   \* argument of the running initialize_connection
    timeout_seconds,  \* argument of the running _open_sap_logon
    exc,              \* the exception in flight towards initialize_connection's handler
    result,           \* how the last public operation ended
    elapsed,          \* time.time() - start_time in _open_sap_logon
    launches,         \* subprocess.Popen calls of this operation
    attempts,         \* GetObject("SAPGUI") calls of the poller, while it runs or failed
    sleeps,           \* time.sleep(1) calls of the poller, while it runs or failed
    falsy,            \* GetObject calls of the poller that returned an empty handle
    counts,           \* the values Sessions.Count returned to this operation, in order
    waits,            \* time.sleep(3) calls of this operation
    binds,            \* assignments to self.session made by _connect_to_system
    writes,           \* login fields written by this operation, in order
    presses,          \* activations of the submit control by this operation
    fault,            \* where the failure of this operation was detected
    stages,           \* the stages initialize_connection has entered, in order
    drain,            \* check_msgBox: its locals and what it did
    closeCalls,       \* close calls this operation issued to the external client
    openConns,        \* connections open in the external client
    nextConn          \* connections the external client has opened so far

handles == <<session, connection, sap_gui_app>>
client == <<openConns, nextConn>>
pollerObs == <<elapsed, launches, attempts, sleeps, falsy>>
openerObs == <<counts, waits, binds>>
loginObs == <<writes, presses>>
callArgs == <<system_name, op, first_call, open_new_logon, timeout_seconds>>
vars == <<system_name, session, connection, sap_gui_app, pc, op, first_call, open_new_logon,
          timeout_seconds, exc, result, elapsed, launches, attempts, sleeps, falsy,
          counts, waits, binds, writes, presses, fault, stages, drain, closeCalls,
          openConns, nextConn>>

Exc(kind, msg) == [kind |-> kind, msg |-> msg]
NoExc == Exc("", "")
Fault(at, elem, text) == [at |-> at, elem |-> elem, text |-> text]
NoFault == Fault("", "", "")
NoResult == [outcome |-> "pending", kind |-> "", msg |-> "", session |-> None,
             flag |-> FALSE]
Returned(s, b) == [outcome |-> "returned", kind |-> "", msg |-> "", session |-> s,
                   flag |-> b]
Raised(e) == [outcome |-> "raised", kind |-> e.kind, msg |-> e.msg, session |-> None,
              flag |-> FALSE]
NoCloseCalls == [window |-> 0, connection |-> 0]
NoDrain == [dialogs0 |-> 0, dialogs |-> 0, checks |-> 0, keys |-> 0,
            msg_handled |-> FALSE, faulted |-> FALSE]
\* the external client shows the modal window on every check
Always == 0 - 1

Init ==
    /\ system_name \in SystemNames
    /\ session = None
    /\ connection = None
    /\ sap_gui_app = None
    /\ pc = "idle"
    /\ op = "__init__"
    /\ first_call = FALSE
    /\ open_new_logon = TRUE
    /\ timeout_seconds = DefaultTimeout
    /\ exc = NoExc
    /\ result = Returned(None, FALSE)
    /\ elapsed = 0
    /\ launches = 0
    /\ attempts = 0
    /\ sleeps = 0
    /\ falsy = 0
    /\ counts = <<>>
    /\ waits = 0
    /\ binds = 0
    /\ writes = <<>>
    /\ presses = 0
    /\ fault = NoFault
    /\ stages = <<>>
    /\ drain = NoDrain
    /\ closeCalls = NoCloseCalls
    /\ openConns = {}
    /\ nextConn = 0

\* A public operation starts: what the previous one did is forgotten.
Begin(name) ==
    /\ pc = "idle"
    /\ op' = name
    /\ first_call' = (op = "__init__")
    /\ exc' = NoExc
    /\ elapsed' = 0
    /\ launches' = 0
    /\ attempts' = 0
    /\ sleeps' = 0
    /\ falsy' = 0
    /\ counts' = <<>>
    /\ waits' = 0
    /\ binds' = 0
    /\ writes' = <<>>
    /\ presses' = 0

\* An exception leaves a stage of initialize_connection for its handler.
Raise(e, f) ==
    /\ pc' = "init_except"
    /\ exc' = e
    /\ fault' = f

(***************************************************************************)
(* The messages of the exceptions.                                         *)
(***************************************************************************)
ExeNotFoundMsg == "Executavel SAP nao encontrado em " \o sap_exe_path
LaunchErrorMsg(erro) == "Erro inesperado ao tentar abrir o SAP Logon: " \o erro
TimeoutMsg(t) ==
    "Timeout: SAP GUI Scripting Engine nao ficou disponivel em " \o ToString(t)
        \o " segundos."
OpenNullMsg ==
    "Falha ao abrir conexao para o sistema " \o system_name
        \o ". Objeto de conexao e nulo."
NoSessionMsg ==
    "Nenhuma sessao encontrada para a conexao " \o system_name
        \o " apos a abertura e espera."
NoSessionForLoginMsg == "Sessao SAP nao esta inicializada para login."
NoFindByIdMsg ==
    "Objeto de sessao invalido ou nao suporta 'findById'. Ocorreu um problema na conexao."
StatusErrorMsg(error_message) == "Erro de login SAP: " \o error_message

(***************************************************************************)
(* initialize_connection, and _open_sap_logon.                             *)
(***************************************************************************)
initialize_connection(onl) ==
    /\ Begin("initialize_connection")
    /\ result' = NoResult
    /\ fault' = NoFault
    /\ closeCalls' = NoCloseCalls
    /\ open_new_logon' = onl
    /\ timeout_seconds' = DefaultTimeout
    /\ pc' = IF onl THEN "launch" ELSE "open"
    /\ stages' = IF onl THEN <<"_open_sap_logon">> ELSE <<"_connect_to_system">>
    /\ drain' = NoDrain
    /\ UNCHANGED <<system_name, handles, client>>

\* _open_sap_logon(timeout_seconds) called by itself, with a timeout of the
\* caller's choice
open_sap_logon(t) ==
    /\ Begin("_open_sap_logon")
    /\ result' = NoResult
    /\ fault' = NoFault
    /\ closeCalls' = NoCloseCalls
    /\ timeout_seconds' = t
    /\ pc' = "launch"
    /\ stages' = <<"_open_sap_logon">>
    /\ drain' = NoDrain
    /\ UNCHANGED <<system_name, open_new_logon, handles, client>>

\* Seeded fault: a launch that faulted is only logged, and the polling starts.
LaunchGoesOn ==
    /\ pc = "launch"
    /\ launches' = launches + 1
    /\ pc' = "poll"
    /\ elapsed' = 0
    /\ \/ UNCHANGED <<exc, fault>>
       \/ /\ exc' = Exc(ConnErr, ExeNotFoundMsg)
          /\ fault' = Fault("launch", "", "FileNotFoundError")
    /\ UNCHANGED <<callArgs, handles, client, result, attempts, sleeps, falsy,
                   openerObs, loginObs, stages, drain, closeCalls>>

\* subprocess.Popen(self.sap_exe_path) and its two handlers
Launch ==
    /\ pc = "launch"
    /\ launches' = launches + 1
    /\ \/ /\ pc' = "poll"
          /\ elapsed' = 0
          /\ UNCHANGED <<exc, fault>>
       \/ /\ Raise(Exc(ConnErr, ExeNotFoundMsg), Fault("launch", "", "FileNotFoundError"))
          /\ UNCHANGED elapsed
       \/ /\ \E erro \in FaultTexts :
                Raise(Exc(ConnErr, LaunchErrorMsg(erro)), Fault("launch", "", erro))
          /\ UNCHANGED elapsed
    /\ UNCHANGED <<callArgs, handles, client, result, attempts, sleeps, falsy,
                   openerObs, loginObs, stages, drain, closeCalls>>

\* `return` in _open_sap_logon: to initialize_connection, which goes on to
\* _connect_to_system, or to the caller that called the method itself
PollerReturns ==
    IF op = "initialize_connection"
    THEN /\ pc' = "open"
         /\ stages' = Append(stages, "_connect_to_system")
         /\ UNCHANGED result
    ELSE /\ pc' = "idle"
         /\ result' = Returned(None, FALSE)
         /\ UNCHANGED stages

\* Seeded fault: the handle GetObject returned is not tested (`if self._sap_gui_app`
\* is missing), so an empty handle ends the polling too.
PollAttemptTakesEmpty ==
    /\ pc = "poll"
    /\ elapsed < timeout_seconds
    /\ \/ /\ sap_gui_app' \in {Some("SAPGUI"), None}
          /\ PollerReturns
          /\ elapsed' = 0
          /\ attempts' = 0
          /\ sleeps' = 0
          /\ falsy' = 0
       \/ /\ attempts' = attempts + 1
          /\ sleeps' = sleeps + 1
          /\ elapsed' = elapsed + PollSleep
          /\ UNCHANGED <<pc, stages, result, sap_gui_app, falsy>>
    /\ UNCHANGED <<callArgs, session, connection, client, exc, launches,
                   openerObs, loginObs, fault, drain, closeCalls>>

\* one turn of `while time.time() - start_time < timeout_seconds`
PollAttempt ==
    /\ pc = "poll"
    /\ elapsed < timeout_seconds
    /\ \/ \* GetObject returned a handle: the method returns, and its clock and
          \* the tallies of its loop go with it
          /\ sap_gui_app' = Some("SAPGUI")
          /\ PollerReturns
          /\ elapsed' = 0
          /\ attempts' = 0
          /\ sleeps' = 0
          /\ falsy' = 0
       \/ \* GetObject returned an empty handle: it is assigned, and the loop goes on
          /\ falsy < MaxFalsy
          /\ sap_gui_app' = None
          /\ attempts' = attempts + 1
          /\ falsy' = falsy + 1
          /\ UNCHANGED <<pc, stages, result, elapsed, sleeps>>
       \/ \* GetObject faulted: except Exception: time.sleep(1)
          /\ attempts' = attempts + 1
          /\ sleeps' = sleeps + 1
          /\ elapsed' = elapsed + PollSleep
          /\ UNCHANGED <<pc, stages, result, sap_gui_app, falsy>>
    /\ UNCHANGED <<callArgs, session, connection, client, exc, launches,
                   openerObs, loginObs, fault, drain, closeCalls>>

\* Seeded fault: the deadline is taken one poll interval early.
PollTimeoutEarly ==
    /\ pc = "poll"
    /\ ~(elapsed + PollSleep < timeout_seconds)
    /\ Raise(Exc(ConnErr, TimeoutMsg(timeout_seconds)), Fault("poll_timeout", "", ""))
    /\ UNCHANGED <<callArgs, handles, client, result, pollerObs, openerObs, loginObs,
                   stages, drain, closeCalls>>

\* the loop's condition is false: the timeout is raised
PollTimeout ==
    /\ pc = "poll"
    /\ ~(elapsed < timeout_seconds)
    /\ Raise(Exc(ConnErr, TimeoutMsg(timeout_seconds)), Fault("poll_timeout", "", ""))
    /\ UNCHANGED <<callArgs, handles, client, result, pollerObs, openerObs, loginObs,
                   stages, drain, closeCalls>>

\* the exception of an _open_sap_logon that was called by itself reaches its caller
PollerRaised ==
    /\ pc = "init_except"
    /\ op = "_open_sap_logon"
    /\ result' = Raised(exc)
    /\ pc' = "idle"
    /\ UNCHANGED <<callArgs, handles, client, exc, pollerObs, openerObs, loginObs,
                   fault, stages, drain, closeCalls>>

(***************************************************************************)
(* _connect_to_system.                                                     *)
(***************************************************************************)
\* except Exception as erro: raise SAPConnectionError(... {erro})
ConnectExcept(erro) ==
    Exc(ConnErr, "Erro ao conectar ao sistema SAP " \o system_name \o ": " \o erro)

\* the index given to self._connection.Children
ChildIndex == 0

\* Seeded fault: the connection is tested for None only after the wait for its
\* sessions.
OpenConnectionWaitsOnNone ==
    /\ pc = "open"
    /\ sap_gui_app # None
    /\ \/ /\ connection' = None
          /\ waits' = waits + 1
          /\ Raise(ConnectExcept(OpenNullMsg), Fault("open_null", "", ""))
          /\ UNCHANGED client
       \/ /\ nextConn < MaxConns
          /\ nextConn' = nextConn + 1
          /\ openConns' = openConns \cup {nextConn + 1}
          /\ connection' = Some(nextConn + 1)
          /\ pc' = "count1"
          /\ UNCHANGED <<exc, fault, waits>>
    /\ UNCHANGED <<callArgs, session, sap_gui_app, result, pollerObs, counts, binds,
                   loginObs, stages, drain, closeCalls>>

\* self._sap_gui_app.GetScriptingEngine, application.OpenConnection(name, True),
\* and the test of the connection it returned
OpenConnection ==
    /\ pc = "open"
    /\ IF sap_gui_app = None
       THEN \* None has no attribute GetScriptingEngine
            /\ Raise(ConnectExcept(AttrErrText), Fault("engine_none", "", AttrErrText))
            /\ UNCHANGED <<connection, client>>
       ELSE \/ \E erro \in FaultTexts, at \in {"engine", "open"} :
                 /\ Raise(ConnectExcept(erro), Fault(at, "", erro))
                 /\ UNCHANGED <<connection, client>>
            \/ \* the engine returned no connection
               /\ connection' = None
               /\ Raise(ConnectExcept(OpenNullMsg), Fault("open_null", "", ""))
               /\ UNCHANGED client
            \/ \* the engine opened a connection
               /\ nextConn < MaxConns
               /\ nextConn' = nextConn + 1
               /\ openConns' = openConns \cup {nextConn + 1}
               /\ connection' = Some(nextConn + 1)
               /\ pc' = "count1"
               /\ UNCHANGED <<exc, fault>>
    /\ UNCHANGED <<callArgs, session, sap_gui_app, result, pollerObs, openerObs,
                   loginObs, stages, drain, closeCalls>>

\* self.session = self._connection.Children(0)
BindSession ==
    \/ /\ session' = Some([conn |-> connection[1], idx |-> ChildIndex])
       /\ binds' = binds + 1
       /\ pc' = "login_mandt"
       /\ stages' = Append(stages, "_login")
       /\ UNCHANGED <<exc, fault>>
    \/ \E erro \in FaultTexts :
          /\ Raise(ConnectExcept(erro), Fault("child", "", erro))
          /\ UNCHANGED <<session, binds, stages>>

\* the first `if self._connection.Sessions.Count > 0`, and its else branch up to
\* time.sleep(3)
CountSessions ==
    /\ pc = "count1"
    /\ \/ \E erro \in FaultTexts :
             /\ Raise(ConnectExcept(erro), Fault("count", "", erro))
             /\ UNCHANGED <<session, openerObs, stages>>
       \/ \E n \in 0 .. MaxSessions :
             /\ counts' = Append(counts, n)
             /\ IF n > 0
                THEN BindSession /\ UNCHANGED waits
                ELSE /\ waits' = waits + 1
                     /\ pc' = "count2"
                     /\ UNCHANGED <<session, binds, stages, exc, fault>>
    /\ UNCHANGED <<callArgs, connection, sap_gui_app, client, result, pollerObs,
                   loginObs, drain, closeCalls>>

\* Seeded fault: a count of zero on the second check waits and checks again.
RecountSessionsAgain ==
    /\ pc = "count2"
    /\ \E n \in 0 .. MaxSessions :
          /\ counts' = Append(counts, n)
          /\ IF n > 0
             THEN BindSession /\ UNCHANGED waits
             ELSE /\ waits' = waits + 1
                  /\ UNCHANGED <<pc, session, binds, stages, exc, fault>>
    /\ UNCHANGED <<callArgs, connection, sap_gui_app, client, result, pollerObs,
                   loginObs, drain, closeCalls>>

\* the second `if self._connection.Sessions.Count > 0`, after the wait
RecountSessions ==
    /\ pc = "count2"
    /\ \/ \E erro \in FaultTexts :
             /\ Raise(ConnectExcept(erro), Fault("count", "", erro))
             /\ UNCHANGED <<session, binds, counts, stages>>
       \/ \E n \in 0 .. MaxSessions :
             /\ counts' = Append(counts, n)
             /\ IF n > 0
                THEN BindSession
                ELSE /\ Raise(ConnectExcept(NoSessionMsg), Fault("no_session", "", ""))
                     /\ UNCHANGED <<session, binds, stages>>
    /\ UNCHANGED <<callArgs, connection, sap_gui_app, client, result, pollerObs,
                   waits, loginObs, drain, closeCalls>>

(***************************************************************************)
(* _login.                                                                 *)
(***************************************************************************)
\* the fields of the login screen, in the order _login writes them
Fields == <<"txtRSYST-MANDT", "txtRSYST-BNAME", "pwdRSYST-BCODE", "txtRSYST-LANGU">>
SubmitControl == "tbar[0]/btn[0]"
StatusLine == "sbar"

\* status_bar.MessageType.lower() in ('e', 'a', 'x')
Rejecting(message_type) == Lower(message_type) \in {"e", "a", "x"}

\* the outer handler of _login: the kind is decided by the text of the exception
LoginExcept(erro) ==
    IF Contains("findById", erro) \/ Contains("element", Lower(erro))
    THEN Exc(ValErr, "Erro ao encontrar elemento da GUI durante o login: " \o erro)
    ELSE Exc(ConnErr, "Erro inesperado durante o login SAP: " \o erro)

\* Seeded fault: the inner handler shows the fault in the exception it raises.
MandtLookupFailedShowsFault(erro) == "Mandante nao encontrado na tela: " \o erro

\* the inner handler around the lookup of the client-id field: `except Exception:`
\* binds no name, and the exception it raises does not show the fault
MandtLookupFailed(erro) == "Mandante nao encontrado na tela"

\* from `if not self.session` to `mandt_field.text = self.client`
LoginMandt ==
    /\ pc = "login_mandt"
    /\ IF session = None
       THEN \* raised before the try: the outer handler does not see it
            /\ Raise(Exc(ConnErr, NoSessionForLoginMsg), Fault("no_session_object", "", ""))
            /\ UNCHANGED writes
       ELSE \/ \* not hasattr(self.session, 'findById')
               /\ Raise(LoginExcept(NoFindByIdMsg), Fault("hasattr", "", ""))
               /\ UNCHANGED writes
            \/ \E erro \in FaultTexts :
                  /\ Raise(LoginExcept(MandtLookupFailed(erro)),
                           Fault("mandt_lookup", Fields[1], erro))
                  /\ UNCHANGED writes
            \/ \E erro \in FaultTexts :
                  /\ Raise(LoginExcept(erro), Fault("write", Fields[1], erro))
                  /\ UNCHANGED writes
            \/ /\ writes' = <<Fields[1]>>
               /\ pc' = "login_field"
               /\ UNCHANGED <<exc, fault>>
    /\ UNCHANGED <<callArgs, handles, client, result, pollerObs, openerObs, presses,
                   stages, drain, closeCalls>>

\* self.session.findById(<field>).text = <value>, for the username, the secret and
\* the language
LoginField ==
    /\ pc = "login_field"
    /\ LET field == Fields[Len(writes) + 1] IN
       \/ \E erro \in FaultTexts, at \in {"lookup", "write"} :
             /\ Raise(LoginExcept(erro), Fault(at, field, erro))
             /\ UNCHANGED writes
       \/ /\ writes' = Append(writes, field)
          /\ pc' = IF Len(writes) + 1 = Len(Fields) THEN "login_submit" ELSE "login_field"
          /\ UNCHANGED <<exc, fault>>
    /\ UNCHANGED <<callArgs, handles, client, result, pollerObs, openerObs, presses,
                   stages, drain, closeCalls>>

\* self.session.findById("wnd[0]/tbar[0]/btn[0]").press()
LoginSubmit ==
    /\ pc = "login_submit"
    /\ \/ \E erro \in FaultTexts, at \in {"lookup", "press"} :
             /\ Raise(LoginExcept(erro), Fault(at, SubmitControl, erro))
             /\ UNCHANGED presses
       \/ /\ presses' = presses + 1
          /\ pc' = "login_status"
          /\ UNCHANGED <<exc, fault>>
    /\ UNCHANGED <<callArgs, handles, client, result, pollerObs, openerObs, writes,
                   stages, drain, closeCalls>>

\* time.sleep(1), the lookup of the status line and the test of its message type
LoginStatus ==
    /\ pc = "login_status"
    /\ \/ \E erro \in FaultTexts, at \in {"lookup", "read"} :
             Raise(LoginExcept(erro), Fault(at, StatusLine, erro))
       \/ \E message_type \in MessageTypes :
             IF Rejecting(message_type)
             THEN \E error_message \in StatusTexts :
                     Raise(LoginExcept(StatusErrorMsg(error_message)),
                           Fault("status", message_type, error_message))
             ELSE /\ pc' = "init_return"
                  /\ UNCHANGED <<exc, fault>>
    /\ UNCHANGED <<callArgs, handles, client, result, pollerObs, openerObs, loginObs,
                   stages, drain, closeCalls>>

(***************************************************************************)
(* The two ends of initialize_connection.                                  *)
(***************************************************************************)
\* return self.session
InitReturn ==
    /\ pc = "init_return"
    /\ result' = Returned(session, FALSE)
    /\ pc' = "idle"
    /\ UNCHANGED <<callArgs, handles, client, exc, pollerObs, openerObs, loginObs,
                   fault, stages, drain, closeCalls>>

\* Seeded fault: the handler forgets self._connection = None.
HandlesAfterFaultKeepsConnection ==
    [session |-> None, connection |-> connection, sap_gui_app |-> None]

\* Seeded fault: the handler forgets self.session = None.
HandlesAfterFaultKeepsSession ==
    [session |-> session, connection |-> None, sap_gui_app |-> None]

\* Seeded fault: the handler forgets self._sap_gui_app = None.
HandlesAfterFaultKeepsEngine ==
    [session |-> None, connection |-> None, sap_gui_app |-> sap_gui_app]

\* the three attributes as the handler of initialize_connection leaves them
HandlesAfterFault == [session |-> None, connection |-> None, sap_gui_app |-> None]

\* except (SAPConnectionError, ValueError, Exception) as e: ...; raise e
InitExcept ==
    /\ pc = "init_except"
    /\ op = "initialize_connection"
    /\ session' = HandlesAfterFault.session
    /\ connection' = HandlesAfterFault.connection
    /\ sap_gui_app' = HandlesAfterFault.sap_gui_app
    /\ result' = Raised(exc)
    /\ pc' = "idle"
    /\ UNCHANGED <<callArgs, client, exc, pollerObs, openerObs, loginObs, fault,
                   stages, drain, closeCalls>>

(***************************************************************************)
(* get_session.                                                            *)
(***************************************************************************)
\* Seeded fault: the session is handed over: the attribute is cleared.
get_sessionTakes ==
    /\ Begin("get_session")
    /\ fault' = NoFault
    /\ closeCalls' = NoCloseCalls
    /\ pc' = "idle"
    /\ result' = Returned(session, FALSE)
    /\ session' = None
    /\ stages' = <<>>
    /\ drain' = NoDrain
    /\ UNCHANGED <<system_name, open_new_logon, timeout_seconds, connection,
                   sap_gui_app, client>>

get_session ==
    /\ Begin("get_session")
    /\ fault' = NoFault
    /\ closeCalls' = NoCloseCalls
    /\ pc' = "idle"
    /\ result' = Returned(session, FALSE)
    /\ stages' = <<>>
    /\ drain' = NoDrain
    /\ UNCHANGED <<system_name, open_new_logon, timeout_seconds, handles, client>>

(***************************************************************************)
(* close_connection.                                                       *)
(***************************************************************************)
\* Seeded fault: the handler of close_connection raises again.
CloseExceptReraises(e) == Raised(e)

\* except Exception as e: the error is logged, and the method ends normally
CloseExcept(e) == Returned(None, FALSE)

\* self.session = None; self._connection = None, on the normal path and in the handler
HandlesAfterClose == [session |-> None, connection |-> None]

\* Seeded fault: close_connection clears the engine handle with the other two.
close_connectionDropsEngine ==
    /\ Begin("close_connection")
    /\ \E windowFaults \in BOOLEAN, connFaults \in BOOLEAN, drops \in BOOLEAN,
          erro \in FaultTexts :
          LET callWindow == session # None
              windowFault == callWindow /\ windowFaults
              callConn == ~windowFault /\ connection # None
              connFault == callConn /\ connFaults
              afterWindow == IF callWindow /\ ~windowFault /\ drops
                             THEN openConns \ {session[1].conn}
                             ELSE openConns
          IN  /\ closeCalls' = [window |-> IF callWindow THEN 1 ELSE 0,
                                connection |-> IF callConn THEN 1 ELSE 0]
              /\ openConns' = IF callConn /\ ~connFault
                              THEN afterWindow \ {connection[1]}
                              ELSE afterWindow
              /\ fault' = IF windowFault THEN Fault("window_close", "wnd[0]", erro)
                          ELSE IF connFault THEN Fault("connection_close", "", erro)
                          ELSE NoFault
              /\ result' = IF windowFault \/ connFault
                           THEN CloseExcept(Exc("Exception", erro))
                           ELSE Returned(None, FALSE)
    /\ session' = HandlesAfterClose.session
    /\ connection' = HandlesAfterClose.connection
    /\ pc' = "idle"
    /\ stages' = <<>>
    /\ drain' = NoDrain
    /\ sap_gui_app' = None
    /\ UNCHANGED <<system_name, open_new_logon, timeout_seconds, nextConn>>

\* windowFaults, connFaults: whether the external client faults the call, if it is
\* made.  drops: whether closing the window makes the client close the connection.
close_connection ==
    /\ Begin("close_connection")
    /\ \E windowFaults \in BOOLEAN, connFaults \in BOOLEAN, drops \in BOOLEAN,
          erro \in FaultTexts :
          LET callWindow == session # None
              windowFault == callWindow /\ windowFaults
              callConn == ~windowFault /\ connection # None
              connFault == callConn /\ connFaults
              afterWindow == IF callWindow /\ ~windowFault /\ drops
                             THEN openConns \ {session[1].conn}
                             ELSE openConns
          IN  /\ closeCalls' = [window |-> IF callWindow THEN 1 ELSE 0,
                                connection |-> IF callConn THEN 1 ELSE 0]
              /\ openConns' = IF callConn /\ ~connFault
                              THEN afterWindow \ {connection[1]}
                              ELSE afterWindow
              /\ fault' = IF windowFault THEN Fault("window_close", "wnd[0]", erro)
                          ELSE IF connFault THEN Fault("connection_close", "", erro)
                          ELSE NoFault
              /\ result' = IF windowFault \/ connFault
                           THEN CloseExcept(Exc("Exception", erro))
                           ELSE Returned(None, FALSE)
    /\ session' = HandlesAfterClose.session
    /\ connection' = HandlesAfterClose.connection
    /\ pc' = "idle"
    /\ stages' = <<>>
    /\ drain' = NoDrain
    /\ UNCHANGED <<system_name, open_new_logon, timeout_seconds, sap_gui_app, nextConn>>

(***************************************************************************)
(* check_msgBox.                                                           *)
(***************************************************************************)
\* The loop has no bound of its own: where the window is shown on every check the
\* two tallies stop counting at CountCap, which no counted run reaches.
CountCap == MaxDialogs + 2
Tally(n) == IF n < CountCap THEN n + 1 ELSE n

\* The external client shows the modal window on the next n checks, or on every
\* check (n = Always).  The session argument is whatever the caller holds.
check_msgBox(n) ==
    /\ Begin("check_msgBox")
    /\ result' = NoResult
    /\ fault' = NoFault
    /\ closeCalls' = NoCloseCalls
    /\ pc' = "drain_check"
    /\ stages' = <<>>
    /\ drain' = [dialogs0 |-> n, dialogs |-> n, checks |-> 0, keys |-> 0,
                 msg_handled |-> FALSE, faulted |-> FALSE]
    /\ UNCHANGED <<system_name, open_new_logon, timeout_seconds, handles, client>>

\* msgBox = session.findById("wnd[1]", False); if msgBox: ... else: break
DrainCheck ==
    /\ pc = "drain_check"
    /\ \/ \E erro \in FaultTexts :
             /\ drain' = [drain EXCEPT !.checks = Tally(@), !.faulted = TRUE]
             /\ fault' = Fault("lookup", "wnd[1]", erro)
             /\ pc' = "drain_except"
             /\ UNCHANGED result
       \/ /\ drain.dialogs # 0
          /\ drain' = [drain EXCEPT !.checks = Tally(@),
                                    !.dialogs = IF @ = Always THEN @ ELSE @ - 1]
          /\ pc' = "drain_send"
          /\ UNCHANGED <<result, fault>>
       \/ /\ drain.dialogs = 0
          /\ drain' = [drain EXCEPT !.checks = Tally(@)]
          /\ result' = Returned(None, drain.msg_handled)
          /\ pc' = "idle"
          /\ UNCHANGED fault
    /\ UNCHANGED <<callArgs, handles, client, exc, pollerObs, openerObs, loginObs,
                   stages, closeCalls>>

\* Seeded fault: `if` for `while`: the method returns after the first key.
DrainSendReturns ==
    /\ pc = "drain_send"
    /\ drain' = [drain EXCEPT !.keys = Tally(@), !.msg_handled = TRUE]
    /\ result' = Returned(None, TRUE)
    /\ pc' = "idle"
    /\ UNCHANGED <<callArgs, handles, client, exc, fault, pollerObs, openerObs,
                   loginObs, stages, closeCalls>>

\* msgBox.sendVKey(0); msg_handled = True
DrainSend ==
    /\ pc = "drain_send"
    /\ \/ \E erro \in FaultTexts :
             /\ drain' = [drain EXCEPT !.faulted = TRUE]
             /\ fault' = Fault("sendVKey", "wnd[1]", erro)
             /\ pc' = "drain_except"
       \/ /\ drain' = [drain EXCEPT !.keys = Tally(@), !.msg_handled = TRUE]
          /\ pc' = "drain_check"
          /\ UNCHANGED fault
    /\ UNCHANGED <<callArgs, handles, client, exc, result, pollerObs, openerObs,
                   loginObs, stages, closeCalls>>

\* Seeded fault: the read of the status line is not guarded.
DrainExceptResultUnguarded(sbar) ==
    IF sbar \in {"fault", "text_fault"}
    THEN Raised(Exc("Exception", fault.text))
    ELSE Returned(None, drain.msg_handled)

\* how check_msgBox ends once its handler has run: sbar is how the best-effort read
\* of the status line went; the bare `except: pass` swallows its fault
DrainExceptResult(sbar) == Returned(None, drain.msg_handled)

\* except Exception as e: ...; return msg_handled
DrainExcept ==
    /\ pc = "drain_except"
    /\ \E sbar \in {"fault", "absent", "text", "text_fault"} :
          result' = DrainExceptResult(sbar)
    /\ pc' = "idle"
    /\ UNCHANGED <<callArgs, handles, client, exc, pollerObs, openerObs, loginObs,
                   fault, stages, drain, closeCalls>>

(***************************************************************************)
(* The automator, and the automator with a thread that keeps running.      *)
(***************************************************************************)
\* a step of the operation that is running
Step ==
    \/ Launch
    \/ PollAttempt
    \/ PollTimeout
    \/ OpenConnection
    \/ CountSessions
    \/ RecountSessions
    \/ LoginMandt
    \/ LoginField
    \/ LoginSubmit
    \/ LoginStatus
    \/ InitReturn
    \/ InitExcept
    \/ DrainCheck
    \/ DrainSend
    \/ DrainExcept

\* the caller starts a public operation
Call ==
    \/ \E onl \in BOOLEAN : initialize_connection(onl)
    \/ get_session
    \/ close_connection
    \/ \E n \in (0 .. MaxDialogs) \cup {Always} : check_msgBox(n)

Next == Step \/ Call

Spec == Init /\ [][Next]_vars

\* The automator whose caller only drains dialogs, with a thread that is never
\* suspended for good: a running check_msgBox takes its next step.
DrainNext ==
    \/ \E n \in (0 .. MaxDialogs) \cup {Always} : check_msgBox(n)
    \/ DrainCheck
    \/ DrainSend
    \/ DrainExcept

\* timeouts a caller gives _open_sap_logon
MaxTimeout == 3
Timeouts == (1 .. MaxTimeout) \cup {DefaultTimeout}

\* The automator whose caller only runs the readiness poller, with a thread that is
\* never suspended for good: a running _open_sap_logon takes its next step.
PollerNext ==
    \/ \E t \in Timeouts : open_sap_logon(t)
    \/ Launch
    \/ PollAttempt
    \/ PollTimeout
    \/ PollerRaised

PollerFairSpec ==
    /\ Init
    /\ [][PollerNext]_vars
    /\ WF_vars(Launch)
    /\ WF_vars(PollAttempt)
    /\ WF_vars(PollTimeout)
    /\ WF_vars(PollerRaised)

DrainFairSpec ==
    /\ Init
    /\ [][DrainNext]_vars
    /\ WF_vars(DrainCheck)
    /\ WF_vars(DrainSend)
    /\ WF_vars(DrainExcept)

(***************************************************************************)
(* Properties.                                                             *)
(***************************************************************************)
LoginPcs == {"login_mandt", "login_field", "login_submit", "login_status"}
AfterInitialize == pc = "idle" /\ op = "initialize_connection"
AfterDrain == pc = "idle" /\ op = "check_msgBox"

\* C1: an initialize_connection in which a stage faulted ends by raising, and when
\* it has ended the session, the connection and the engine handle are all None.
C1_FaultNullsAllHandles ==
    AfterInitialize =>
        /\ (fault # NoFault) = (result.outcome = "raised")
        /\ (fault = NoFault) = (result.outcome = "returned")
        /\ result.outcome = "raised" =>
              /\ result.kind \in {ConnErr, ValErr}
              /\ session = None
              /\ connection = None
              /\ sap_gui_app = None

\* C1, its case: the login was rejected in a call that had found the engine handle
\* set and had bound a connection and a session.
C1_Witness ==
    /\ AfterInitialize
    /\ ~open_new_logon
    /\ binds = 1
    /\ fault.at = "status"
    /\ result.outcome = "raised"

\* C2: initialize_connection(False) launches nothing and looks no engine up, and on
\* a fresh automator, when no call to the external client goes wrong, it returns a
\* session.
C2_DirectConnectOnFreshAutomator ==
    (AfterInitialize /\ ~open_new_logon /\ first_call
        /\ fault.at \in {"", "engine_none"}) =>
        /\ launches = 0
        /\ attempts = 0
        /\ result.outcome = "returned"
        /\ result.session # None

\* C3: a status line of type E, A or X after the login makes _login fail with a
\* SAPConnectionError whose message shows the text of the status line.
C3_RejectedLoginIsConnectionError ==
    (pc = "init_except" /\ fault.at = "status") =>
        /\ exc.kind = ConnErr
        /\ Contains(fault.text, exc.msg)

\* C4: once the client-id field was found, a fault of a later lookup of _login
\* makes it fail with a ValueError.
C4_LaterLookupFaultIsValueError ==
    (pc = "init_except" /\ fault.at = "lookup" /\ Len(writes) >= 1) =>
        exc.kind = ValErr

C6_CloseNeverRaises ==
    (pc = "idle" /\ op = "close_connection") =>
        /\ result.outcome = "returned"
        /\ session = None
        /\ connection = None

\* C6, its case: the connection close was called and faulted.
C6_Witness ==
    /\ pc = "idle"
    /\ op = "close_connection"
    /\ fault.at = "connection_close"
    /\ closeCalls.connection = 1

\* C7: a check_msgBox that has begun ends.
C7_DrainTerminates == [](pc = "drain_check" => <>(pc = "idle"))

\* C8: when the modal window is present on exactly N checks and then absent, and
\* nothing faults, check_msgBox checks N + 1 times, sends N keys and returns
\* whether N >= 1.
C8_DrainCounts ==
    (AfterDrain /\ ~drain.faulted) =>
        /\ drain.dialogs0 # Always
        /\ drain.checks = drain.dialogs0 + 1
        /\ drain.keys = drain.dialogs0
        /\ result = Returned(None, drain.dialogs0 >= 1)

\* C8, its case: the window was present on MaxDialogs checks.
C8_Witness ==
    /\ AfterDrain
    /\ ~drain.faulted
    /\ drain.dialogs0 = MaxDialogs
    /\ drain.keys >= 2

\* C9: check_msgBox ends normally whatever faults, a fault ends its loop, and it
\* returns whether a key was sent.
C9_DrainNeverRaises ==
    /\ AfterDrain =>
          /\ result.outcome = "returned"
          /\ result.flag = (drain.keys >= 1)
    /\ drain.faulted => pc \in {"drain_except", "idle"}

\* C9, its case: a key was sent, then the key send faulted.
C9_Witness ==
    /\ AfterDrain
    /\ drain.faulted
    /\ fault.at = "sendVKey"
    /\ drain.keys >= 1

\* C10: _connect_to_system reads the session count at most twice and waits once,
\* between the two reads; a count above zero binds child 0 of the connection; two
\* counts of zero end in a SAPConnectionError with no session bound.
C10_OneRetry ==
    /\ Len(counts) <= 2
    /\ waits = (IF counts # <<>> /\ counts[1] = 0 THEN 1 ELSE 0)
    /\ (Len(counts) = 2 => counts[1] = 0)
    /\ (counts # <<>> /\ counts[Len(counts)] > 0) =>
          (binds = 1 \/ (binds = 0 /\ fault.at = "child"))
    /\ (binds = 1 /\ pc \in LoginPcs \cup {"init_return"}) =>
          /\ connection # None
          /\ session = Some([conn |-> connection[1], idx |-> 0])
    /\ counts = <<0, 0>> =>
          /\ binds = 0
          /\ fault.at = "no_session"
          /\ exc.kind = ConnErr
          /\ pc \in {"init_except", "idle"}
          /\ pc = "idle" => (result = Raised(exc) /\ session = None)

\* C10, its case: the count was zero on both reads.
C10_Witness ==
    /\ AfterInitialize
    /\ counts = <<0, 0>>
    /\ waits = 1

\* C11: when OpenConnection returns no connection, whatever the system name,
\* _connect_to_system fails with a SAPConnectionError and has read no session count
\* and waited for none.
C11_NoConnection ==
    fault.at = "open_null" =>
        /\ pc \in {"init_except", "idle"}
        /\ exc.kind = ConnErr
        /\ Contains(OpenNullMsg, exc.msg)
        /\ connection = None
        /\ counts = <<>>
        /\ waits = 0
        /\ binds = 0
        /\ pc = "idle" => result = Raised(exc)

\* C11, its case: no connection for the second system name, with the engine found
\* by this call.
C11_Witness ==
    /\ AfterInitialize
    /\ fault.at = "open_null"
    /\ system_name = "QAS"
    /\ open_new_logon

\* C12: time passing only in time.sleep(1), a poller whose every lookup faults
\* raises its SAPConnectionError when the timeout has elapsed and at most one poll
\* interval later, does not assign the engine handle, and does not poll forever.
C12_PollerTimesOut ==
    /\ []((fault.at = "poll_timeout" /\ falsy = 0) =>
            /\ pc \in {"init_except", "idle"}
            /\ exc.kind = ConnErr
            /\ elapsed >= timeout_seconds
            /\ elapsed <= timeout_seconds + PollSleep
            /\ attempts = sleeps
            /\ pc = "idle" => result = Raised(exc))
    /\ [][(pc = "poll" /\ pc' \in {"poll", "init_except"} /\ falsy' = falsy) =>
             sap_gui_app' = sap_gui_app]_vars
    /\ (pc = "poll" /\ falsy = 0) ~>
          (fault.at = "poll_timeout" \/ falsy > 0 \/ result.outcome = "returned")

\* C12, its case: every lookup faulted until the longest of the short timeouts.
C12_Witness ==
    /\ pc = "idle"
    /\ op = "_open_sap_logon"
    /\ fault.at = "poll_timeout"
    /\ falsy = 0
    /\ timeout_seconds = MaxTimeout
    /\ attempts = MaxTimeout

\* C13: when the launch of the executable faults, _open_sap_logon fails with a
\* SAPConnectionError and has looked the engine up zero times and slept zero times.
C13_LaunchFault ==
    fault.at = "launch" =>
        /\ pc \in {"init_except", "idle"}
        /\ exc.kind = ConnErr
        /\ launches = 1
        /\ attempts = 0
        /\ sleeps = 0
        /\ falsy = 0
        /\ elapsed = 0
        /\ pc = "idle" => result = Raised(exc)

\* C13, its case: the executable was not found.
C13_Witness ==
    /\ AfterInitialize
    /\ fault = Fault("launch", "", "FileNotFoundError")
    /\ result.kind = ConnErr

\* the stages of an initialize_connection, in the order of its body
StagesOf(onl) ==
    IF onl THEN <<"_open_sap_logon", "_connect_to_system", "_login">>
    ELSE <<"_connect_to_system", "_login">>
StageOfPc ==
    CASE pc \in {"launch", "poll"} -> "_open_sap_logon"
      [] pc \in {"open", "count1", "count2"} -> "_connect_to_system"
      [] pc \in LoginPcs \cup {"init_return"} -> "_login"
      [] OTHER -> stages[Len(stages)]

\* C14: in an initialize_connection the stages are entered in order and once each:
\* _connect_to_system runs with the engine handle the poller obtained, _login with
\* a session bound, the call returns only after the login went through, and after a
\* fault no stage runs.
C14_StagesForward ==
    op = "initialize_connection" =>
        /\ Len(stages) \in 1 .. Len(StagesOf(open_new_logon))
        /\ stages = SubSeq(StagesOf(open_new_logon), 1, Len(stages))
        /\ stages[Len(stages)] = StageOfPc
        /\ launches <= 1
        /\ binds <= 1
        /\ (open_new_logon /\ pc \in {"open", "count1", "count2"}) =>
              sap_gui_app # None
        /\ pc \in LoginPcs \cup {"init_return"} =>
              (session # None /\ binds = 1)
        /\ (pc = "init_return" \/ (pc = "idle" /\ result.outcome = "returned")) =>
              /\ stages = StagesOf(open_new_logon)
              /\ Len(writes) = Len(Fields)
              /\ presses = 1
              /\ fault = NoFault
        /\ fault # NoFault => pc \in {"init_except", "idle"}

\* C14, its case: a call with open_new_logon that went through its three stages.
C14_Witness ==
    /\ AfterInitialize
    /\ open_new_logon
    /\ result.outcome = "returned"
    /\ stages = StagesOf(TRUE)

\* C15: between two operations, a session handle that is set is child 0 of the
\* connection that the connection handle holds.
C15_SessionOfConnection ==
    (pc = "idle" /\ session # None) =>
        /\ connection # None
        /\ session = Some([conn |-> connection[1], idx |-> 0])

\* C15, its case: the session of a second connection, opened while the handles of
\* the first were still set.
C15_Witness ==
    /\ pc = "idle"
    /\ session # None
    /\ connection = Some(2)
    /\ openConns = {1, 2}

\* C16: get_session returns self.session and leaves the three handles: the handle
\* initialize_connection returned when the last operation was one that succeeded,
\* None when it was one that failed or was close_connection.
C16_GetSession ==
    [][(pc = "idle" /\ op' = "get_session") =>
          /\ result' = Returned(session, FALSE)
          /\ UNCHANGED handles
          /\ (op = "initialize_connection" /\ result.outcome = "returned") =>
                (result'.session = result.session /\ result'.session # None)
          /\ (op = "initialize_connection" /\ result.outcome = "raised") =>
                result'.session = None
          /\ op = "close_connection" => result'.session = None]_vars

\* C16, its case: get_session returned a session.
C16_Witness ==
    /\ pc = "idle"
    /\ op = "get_session"
    /\ result.session # None
    /\ result.session = session

\* C17: a close_connection that finds the connection handle set calls
\* CloseConnection, also when the close of the session window faulted.
C17_BothTeardownSteps ==
    [][(pc = "idle" /\ op' = "close_connection" /\ connection # None) =>
          closeCalls'.connection = 1]_vars

\* C18: one poll interval passes between two lookups of the engine, so a poller
\* has made at most timeout_seconds + 1 of them.
C18_FixedInterval ==
    /\ (attempts - 1) * PollSleep <= elapsed
    /\ attempts <= timeout_seconds + 1

\* an initialize_connection failed after it had opened a connection
FailedAfterOpen ==
    /\ AfterInitialize
    /\ result.outcome = "raised"
    /\ (fault.at = "no_session" \/ stages[Len(stages)] = "_login")

\* C19: initialize_connection makes no close call; when it fails after the
\* connection was opened, the handles are None and the connection is still open in
\* the external client, and a close_connection that follows makes no call at all.
C19_FailedInitLeavesConnectionOpen ==
    /\ [](op = "initialize_connection" => closeCalls = NoCloseCalls)
    /\ [](FailedAfterOpen =>
            /\ session = None
            /\ connection = None
            /\ nextConn \in openConns)
    /\ [][(op = "initialize_connection" /\ pc # "idle") =>
             openConns \subseteq openConns']_vars
    /\ [][(AfterInitialize /\ result.outcome = "raised"
             /\ op' = "close_connection") =>
             (closeCalls' = NoCloseCalls /\ openConns' = openConns)]_vars

\* C19, its case: the first operation opened a connection and the login was
\* rejected.
C19_Witness ==
    /\ FailedAfterOpen
    /\ first_call
    /\ fault.at = "status"
    /\ openConns = {1}
    /\ connection = None

\* C20: close_connection leaves the engine handle as it is, so it is still set
\* after a successful initialize_connection(True) and a close_connection; after a
\* failed initialize_connection it is None.
C20_CloseKeepsEngine ==
    /\ [][(pc = "idle" /\ op' = "close_connection") =>
             sap_gui_app' = sap_gui_app]_vars
    /\ []((AfterInitialize /\ result.outcome = "returned") => sap_gui_app # None)
    /\ []((AfterInitialize /\ result.outcome = "raised") => sap_gui_app = None)
    /\ [][(AfterInitialize /\ open_new_logon /\ result.outcome = "returned"
             /\ op' = "close_connection") => sap_gui_app' # None]_vars

\* C20, its case: close_connection took its fault path with the engine handle set.
C20_Witness ==
    /\ pc = "idle"
    /\ op = "close_connection"
    /\ fault.at = "window_close"
    /\ sap_gui_app # None

====
